---- MODULE Spec2Model ----
(***************************************************************************)
(* Model of the customer-support system: the KnowledgeBaseManager          *)
(* (utils/knowledge_base.py) and the CustomerSupportAgent                  *)
(* (models/ai_agent.py).  The embedding service, the vector store and the  *)
(* language model are the environment: their outcomes (success, failure,   *)
(* answer, tool request) are inputs drawn by the actions.                  *)
(***************************************************************************)
EXTENDS Integers, Sequences, FiniteSets, TLC

VARIABLES
    collection,   \* the "langchain" Chroma collection: sequence of stored chunks
    collExists,   \* whether the collection still exists in the Chroma client
    memory,       \* ConversationBufferMemory.chat_memory.messages
    pc,           \* "idle", or "running" while agent_executor.invoke is in its loop
    input,        \* user_message of the turn in progress (None between turns)
    iterations,   \* AgentExecutor's iteration counter of the turn in progress
    observation,  \* last tool observation of the turn in progress (scratchpad)
    outcome,      \* how the last turn left the executor: "final", "cap", "error"
    parseFailed,  \* whether an output of the turn (in progress or last) failed to parse
    lastOp,       \* name of the operation called last
    arg,          \* its arguments
    ret,          \* its return value
    pre,          \* collection and memory as they were when it was called
    held,         \* the list a caller got from get_conversation_history
    hashes,       \* hash() of the strings hashed so far by this process
    issued,       \* the ticket identifiers handed out, over all runs
    console       \* the ConsoleInterface: its stage, its objects, what it served

vars == <<collection, collExists, memory, pc, input, iterations, observation,
          outcome, parseFailed, lastOp, arg, ret, pre, held, hashes, issued, console>>

kbVars == <<collection, collExists>>
turnVars == <<pc, input, iterations, observation, outcome, parseFailed>>

(***************************************************************************)
(* Bounds of the model                                                     *)
(***************************************************************************)
MaxBatch == 2      \* longest file_paths list given to add_documents
MaxChunks == 4     \* add_documents is not called once the collection is this full
MaxK == 3          \* largest k given to search
MaxMem == 4        \* no new turn is started once memory holds this many messages

None == "none"

\* arg, ret and observation are records; this one stands for no value
NoValue == [none |-> TRUE]

(***************************************************************************)
(* The files on disk.  A file has an extension as written in its path, may *)
(* be missing, and its loader either raises or yields documents; a         *)
(* document is a text (identified by name) of a given length.              *)
(***************************************************************************)
Paths == {"faq.txt", "GUIDE.MD", "gone.txt", "notes.docx", "broken.pdf", "empty.txt"}

Exists(p) == p # "gone.txt"

\* os.path.splitext(file_path)[1]
SplitExt(p) ==
    CASE p = "faq.txt" -> ".txt"
      [] p = "GUIDE.MD" -> ".MD"
      [] p = "gone.txt" -> ".txt"
      [] p = "notes.docx" -> ".docx"
      [] p = "broken.pdf" -> ".pdf"
      [] p = "empty.txt" -> ".txt"

\* str.lower() on the extensions that occur
Lower(s) ==
    CASE s = ".MD" -> ".md"
      [] OTHER -> s

\* what loader.load() does on the file: the documents, or "raise"
LoaderLoad(p) ==
    CASE p = "faq.txt" -> <<[text |-> "faq", len |-> 900]>>
      [] p = "GUIDE.MD" -> <<[text |-> "guide", len |-> 300]>>
      [] p = "empty.txt" -> <<[text |-> "empty", len |-> 0]>>
      [] p = "broken.pdf" -> "raise"
      [] OTHER -> "raise"

SUPPORTED_FILE_TYPES == {".txt", ".pdf", ".csv", ".md"}

chunk_size == 500
chunk_overlap == 100

(***************************************************************************)
(* KnowledgeBaseManager                                                    *)
(***************************************************************************)

\* load_document: the extension, lower-cased, selects the loader; an
\* unsupported extension or a loader failure is caught and yields [].
load_document(p) ==
    LET file_extension == Lower(SplitExt(p)) IN
    IF file_extension \notin SUPPORTED_FILE_TYPES THEN <<>>
    ELSE IF LoaderLoad(p) = "raise" THEN <<>>
    ELSE LoaderLoad(p)

\* RecursiveCharacterTextSplitter on one text: windows of at most chunk_size
\* characters, each starting chunk_size - chunk_overlap after the previous.
RECURSIVE Windows(_, _, _, _)
Windows(p, text, start, len) ==
    IF len = 0 THEN <<>>
    ELSE IF start + chunk_size >= len
    THEN << [content |-> [text |-> text, start |-> start, end |-> len], source |-> p] >>
    ELSE << [content |-> [text |-> text, start |-> start, end |-> start + chunk_size],
             source |-> p] >>
         \o Windows(p, text, start + chunk_size - chunk_overlap, len)

\* process_documents: split_documents over the documents of one file
RECURSIVE process_documents(_, _)
process_documents(p, documents) ==
    IF documents = <<>> THEN <<>>
    ELSE Windows(p, Head(documents).text, 0, Head(documents).len)
         \o process_documents(p, Tail(documents))

\* the loop with a load_document that lets the error of an unloadable file
\* escape: add_documents' own except branch ends the batch with nothing stored
RECURSIVE all_chunks_abort(_)
all_chunks_abort(file_paths) ==
    IF file_paths = <<>> THEN <<>>
    ELSE IF \E i \in 1..Len(file_paths) :
                /\ Exists(file_paths[i])
                /\ (Lower(SplitExt(file_paths[i])) \notin SUPPORTED_FILE_TYPES
                    \/ LoaderLoad(file_paths[i]) = "raise")
    THEN <<>>
    ELSE LET file_path == Head(file_paths)
             documents == load_document(file_path)
         IN  (IF ~Exists(file_path) THEN <<>>
              ELSE IF documents # <<>> THEN process_documents(file_path, documents)
              ELSE <<>>)
             \o all_chunks_abort(Tail(file_paths))

\* the loop leaving at the first missing file instead of going on to the next
RECURSIVE all_chunks_break(_)
all_chunks_break(file_paths) ==
    IF file_paths = <<>> THEN <<>>
    ELSE LET file_path == Head(file_paths)
             documents == load_document(file_path)
         IN  IF ~Exists(file_path) THEN <<>>
             ELSE (IF documents # <<>> THEN process_documents(file_path, documents)
                   ELSE <<>>)
                  \o all_chunks_break(Tail(file_paths))

\* the loop of add_documents: all_chunks accumulated over file_paths
RECURSIVE all_chunks(_)
all_chunks(file_paths) ==
    IF file_paths = <<>> THEN <<>>
    ELSE LET file_path == Head(file_paths)
             documents == load_document(file_path)
         IN  (IF ~Exists(file_path) THEN <<>>
              ELSE IF documents # <<>> THEN process_documents(file_path, documents)
              ELSE <<>>)
             \o all_chunks(Tail(file_paths))

\* add_documents reporting the store's success without looking at all_chunks
add_documents_result_unchecked(file_paths, storeOk) ==
    IF storeOk /\ collExists THEN TRUE ELSE FALSE

\* return value of add_documents; storeOk is whether vector_store.add_documents
\* (embedding and upsert) succeeds
add_documents_result(file_paths, storeOk) ==
    IF all_chunks(file_paths) # <<>>
    THEN (IF storeOk /\ collExists THEN TRUE ELSE FALSE)
    ELSE FALSE

\* an add_documents that stores the batch in place of what was stored
add_documents_store_replace(file_paths, storeOk) ==
    IF all_chunks(file_paths) # <<>> /\ storeOk /\ collExists
    THEN all_chunks(file_paths)
    ELSE collection

\* the collection after add_documents
add_documents_store(file_paths, storeOk) ==
    IF all_chunks(file_paths) # <<>> /\ storeOk /\ collExists
    THEN collection \o all_chunks(file_paths)
    ELSE collection

Batches == UNION { [1..n -> Paths] : n \in 0..MaxBatch }

AddDocuments ==
    \E file_paths \in Batches, storeOk \in BOOLEAN :
        /\ pc = "idle"
        /\ Len(collection) + Len(all_chunks(file_paths)) <= MaxChunks
        /\ collection' = add_documents_store(file_paths, storeOk)
        /\ ret' = [ok |-> add_documents_result(file_paths, storeOk)]
        /\ lastOp' = "add_documents"
        /\ arg' = [file_paths |-> file_paths, storeOk |-> storeOk]
        /\ pre' = [collection |-> collection, memory |-> memory]
        /\ UNCHANGED <<collExists, memory, turnVars>>
        /\ UNCHANGED <<held, hashes, issued, console>>

Queries == {"faq", "guide", "other"}

\* distance of a stored chunk from the query in the embedding space
Distance(query, chunk) == IF chunk.content.text = query THEN 0 ELSE 1

\* a similarity search that ranks but does not cut at k
similarity_search_uncut(query, k) ==
    SelectSeq(collection, LAMBDA c : Distance(query, c) = 0)
    \o SelectSeq(collection, LAMBDA c : Distance(query, c) = 1)

\* vector_store.similarity_search(query, k): the k nearest chunks, nearest first
similarity_search(query, k) ==
    LET ranked == SelectSeq(collection, LAMBDA c : Distance(query, c) = 0)
                  \o SelectSeq(collection, LAMBDA c : Distance(query, c) = 1)
    IN  SubSeq(ranked, 1, IF k < Len(ranked) THEN k ELSE Len(ranked))

\* [doc.page_content for doc in results]
page_contents(results) == [i \in 1..Len(results) |-> results[i].content]

\* search: the page contents of the k nearest chunks, [] when the similarity
\* search raises (storeOk false, or the collection is gone)
search(query, k, storeOk) ==
    IF storeOk /\ collExists THEN page_contents(similarity_search(query, k))
    ELSE <<>>

Search ==
    \E query \in Queries, k \in 1..MaxK, storeOk \in BOOLEAN :
        /\ pc = "idle"
        /\ ret' = [chunks |-> search(query, k, storeOk)]
        /\ lastOp' = "search"
        /\ arg' = [query |-> query, k |-> k, storeOk |-> storeOk]
        /\ pre' = [collection |-> collection, memory |-> memory]
        /\ UNCHANGED <<kbVars, memory, turnVars>>
        /\ UNCHANGED <<held, hashes, issued, console>>

persist_directory == "./data/chroma_db"

\* get_collection_info: the count of the "langchain" collection, 0 when
\* get_collection or count raises
get_collection_info(storeOk) ==
    IF storeOk /\ collExists
    THEN [total_documents |-> Len(collection), persist_directory |-> persist_directory]
    ELSE [total_documents |-> 0, persist_directory |-> persist_directory]

GetCollectionInfo ==
    \E storeOk \in BOOLEAN :
        /\ pc = "idle"
        /\ ret' = get_collection_info(storeOk)
        /\ lastOp' = "get_collection_info"
        /\ arg' = [storeOk |-> storeOk]
        /\ pre' = [collection |-> collection, memory |-> memory]
        /\ UNCHANGED <<kbVars, memory, turnVars>>
        /\ UNCHANGED <<held, hashes, issued, console>>

\* Settings(anonymized_telemetry=False): allow_reset keeps its default
allow_reset == FALSE

\* chroma_client.reset() raises unless the settings allow it
reset_raises == ~allow_reset

\* clear_knowledge_base: True when reset() returned, False when it raised
clear_knowledge_base_result == IF reset_raises THEN FALSE ELSE TRUE

ClearKnowledgeBase ==
    /\ pc = "idle"
    /\ IF reset_raises
       THEN UNCHANGED kbVars
       ELSE collection' = <<>> /\ collExists' = FALSE
    /\ ret' = [ok |-> clear_knowledge_base_result]
    /\ lastOp' = "clear_knowledge_base"
    /\ arg' = NoValue
    /\ pre' = [collection |-> collection, memory |-> memory]
    /\ UNCHANGED <<memory, turnVars>>
    /\ UNCHANGED <<held, hashes, issued, console>>

(***************************************************************************)
(* CustomerSupportAgent                                                    *)
(***************************************************************************)
UserMessages == {"hello", "refund"}
Answers == {"answer one", "answer two"}
Errors == {"model unreachable", "tool validation error"}

HumanMessage(content) == [type |-> "human", content |-> content]
AIMessage(content) == [type |-> "ai", content |-> content]

\* AgentExecutor(agent, tools, memory, verbose, handle_parsing_errors): the
\* iteration cap keeps the executor's default
max_iterations == 15

\* handle_parsing_errors=True
handle_parsing_errors == TRUE

\* output of the executor when the loop ends on the cap (early stopping "force")
StoppedResponse == "Agent stopped due to iteration limit or time limit."

\* error_response of process_message
Apology(e) ==
    "I apologize, but I encountered an error while processing your request. "
    \o "Please try again or contact human support if the issue persists. Error: " \o e

Apologies == { Apology(e) : e \in Errors }

\* the tool without its else branch
search_knowledge_base_no_sentinel(query, storeOk) ==
    [text |-> "Found relevant information:", results |-> search(query, 2, storeOk)]

\* the search_knowledge_base tool
search_knowledge_base(query, storeOk) ==
    LET results == search(query, 2, storeOk) IN
    IF results # <<>>
    THEN [text |-> "Found relevant information:", results |-> results]
    ELSE [text |-> "No relevant information found in the knowledge base.",
          results |-> <<>>]

OtherTools == {"get_customer_info", "create_support_ticket", "escalate_issue",
               "provide_solution_steps"}

\* a save_context that keeps only the exchange it is given
save_context_overwrite(messages, user_message, output) ==
    <<HumanMessage(user_message), AIMessage(output)>>

\* Chain.prep_outputs of the executor, which was given memory=self.memory:
\* memory.save_context(inputs, outputs) appends the input and the output
save_context(messages, user_message, output) ==
    messages \o <<HumanMessage(user_message), AIMessage(output)>>

\* process_message from the return of agent_executor.invoke on:
\* the executor has saved the exchange, then add_ai_message(ai_response)
memory_after_answer(messages, user_message, output) ==
    Append(save_context(messages, user_message, output), AIMessage(output))

\* the except branch without its add_ai_message
memory_after_error_unlogged(messages, e) == messages

\* process_message's except branch: add_ai_message(error_response)
memory_after_error(messages, e) == Append(messages, AIMessage(Apology(e)))

\* process_message up to the call of agent_executor.invoke:
\* add_user_message(user_message)
BeginTurn ==
    \E user_message \in UserMessages :
        /\ pc = "idle"
        /\ Len(memory) < MaxMem
        /\ memory' = Append(memory, HumanMessage(user_message))
        /\ pc' = "running"
        /\ input' = user_message
        /\ iterations' = 0
        /\ observation' = NoValue
        /\ outcome' = None
        /\ parseFailed' = FALSE
        /\ lastOp' = "process_message"
        /\ arg' = [user_message |-> user_message]
        /\ ret' = NoValue
        /\ pre' = [collection |-> collection, memory |-> memory]
        /\ UNCHANGED kbVars
        /\ UNCHANGED <<held, hashes, issued, console>>

\* the model returns a final answer: the executor returns it, process_message
\* stores and returns it
ModelFinalAnswer ==
    \E a \in Answers :
        /\ pc = "running"
        /\ iterations < max_iterations
        /\ memory' = memory_after_answer(memory, input, a)
        /\ ret' = [text |-> a]
        /\ outcome' = "final"
        /\ pc' = "idle"
        /\ input' = None /\ iterations' = 0 /\ observation' = NoValue
    /\ UNCHANGED <<kbVars, parseFailed, lastOp, arg, pre>>
        /\ UNCHANGED <<held, hashes, issued, console>>

\* the model requests search_knowledge_base: the tool runs, its result is the
\* observation of this round
ModelCallsSearchTool ==
    \E query \in Queries, storeOk \in BOOLEAN :
        /\ pc = "running"
        /\ iterations < max_iterations
        /\ observation' = search_knowledge_base(query, storeOk)
        /\ iterations' = iterations + 1
        /\ UNCHANGED <<kbVars, memory, pc, input, outcome, parseFailed, lastOp, arg, ret, pre>>
        /\ UNCHANGED <<held, hashes, issued, console>>

\* the model requests one of the other tools with well-formed arguments
ModelCallsOtherTool ==
    \E t \in OtherTools :
        /\ pc = "running"
        /\ iterations < max_iterations
        /\ observation' = [tool |-> t]
        /\ iterations' = iterations + 1
        /\ UNCHANGED <<kbVars, memory, pc, input, outcome, parseFailed, lastOp, arg, ret, pre>>
        /\ UNCHANGED <<held, hashes, issued, console>>

\* the model's output does not parse: with handle_parsing_errors the error is
\* the observation of this round, otherwise invoke raises
ModelOutputMalformed ==
    /\ pc = "running"
    /\ iterations < max_iterations
    /\ parseFailed' = TRUE
    /\ IF handle_parsing_errors
       THEN /\ observation' = [error |-> "Invalid or incomplete response"]
            /\ iterations' = iterations + 1
            /\ UNCHANGED <<memory, pc, outcome, ret>>
       ELSE /\ memory' = memory_after_error(memory, "output parsing error")
            /\ ret' = [text |-> Apology("output parsing error")]
            /\ outcome' = "error"
            /\ pc' = "idle"
            /\ iterations' = 0 /\ observation' = NoValue
    /\ UNCHANGED <<kbVars, input, lastOp, arg, pre>>
    /\ UNCHANGED <<held, hashes, issued, console>>

\* the model call raises, or a tool called with arguments it rejects raises:
\* invoke raises, process_message stores and returns the apology
InvokeRaises ==
    \E e \in Errors :
        /\ pc = "running"
        /\ iterations < max_iterations
        /\ memory' = memory_after_error(memory, e)
        /\ ret' = [text |-> Apology(e)]
        /\ outcome' = "error"
        /\ pc' = "idle"
        /\ input' = None /\ iterations' = 0 /\ observation' = NoValue
    /\ UNCHANGED <<kbVars, parseFailed, lastOp, arg, pre>>
        /\ UNCHANGED <<held, hashes, issued, console>>

\* an executor whose counter starts over instead of ending the loop
IterationCapRestarts ==
    /\ pc = "running"
    /\ iterations >= max_iterations
    /\ iterations' = 0
    /\ UNCHANGED <<kbVars, memory, pc, input, observation, outcome, parseFailed,
                   lastOp, arg, ret, pre>>
    /\ UNCHANGED <<held, hashes, issued, console>>

\* the loop ends on the iteration cap: the executor returns its stopped
\* response as the output
IterationCap ==
    /\ pc = "running"
    /\ iterations >= max_iterations
    /\ memory' = memory_after_answer(memory, input, StoppedResponse)
    /\ ret' = [text |-> StoppedResponse]
    /\ outcome' = "cap"
    /\ pc' = "idle"
    /\ input' = None /\ iterations' = 0 /\ observation' = NoValue
    /\ UNCHANGED <<kbVars, parseFailed, lastOp, arg, pre>>
    /\ UNCHANGED <<held, hashes, issued, console>>

\* get_conversation_history returns chat_memory.messages, the list object
\* itself: while it is the agent's list the caller's list has its contents
HeldContents == IF held.alias THEN memory ELSE held.own

NotHeld == [taken |-> FALSE, alias |-> FALSE, own |-> <<>>]

\* get_conversation_history, the caller reading the list and dropping it
\* (as show_history does)
GetConversationHistory ==
    /\ pc = "idle"
    /\ ret' = [messages |-> memory]
    /\ lastOp' = "get_conversation_history"
    /\ arg' = NoValue
    /\ pre' = [collection |-> collection, memory |-> memory]
    /\ UNCHANGED <<kbVars, memory, turnVars, held, hashes, issued, console>>

\* get_conversation_history, the caller keeping the list it is given
CallerKeepsHistory ==
    /\ pc = "idle"
    /\ held' = [taken |-> TRUE, alias |-> TRUE, own |-> <<>>]
    /\ ret' = [messages |-> memory]
    /\ lastOp' = "get_conversation_history"
    /\ arg' = NoValue
    /\ pre' = [collection |-> collection, memory |-> memory]
    /\ UNCHANGED <<kbVars, memory, turnVars, hashes, issued, console>>

\* the caller removes the last entry of the list it was given
CallerEditsHistory ==
    /\ pc = "idle"
    /\ held.taken
    /\ HeldContents # <<>>
    /\ IF held.alias
       THEN /\ memory' = SubSeq(memory, 1, Len(memory) - 1)
            /\ UNCHANGED held
       ELSE /\ held' = [held EXCEPT !.own = SubSeq(held.own, 1, Len(held.own) - 1)]
            /\ UNCHANGED memory
    /\ lastOp' = "caller_edit"
    /\ arg' = NoValue
    /\ ret' = NoValue
    /\ pre' = [collection |-> collection, memory |-> memory]
    /\ UNCHANGED <<kbVars, turnVars, hashes, issued, console>>

GEMINI_MODEL == "gemini-1.5-flash"

\* get_agent_status
get_agent_status ==
    [model |-> GEMINI_MODEL,
     memory_length |-> Len(memory),
     tools_available |-> 1 + Cardinality(OtherTools)]

GetAgentStatus ==
    /\ pc = "idle"
    /\ ret' = get_agent_status
    /\ lastOp' = "get_agent_status"
    /\ arg' = NoValue
    /\ pre' = [collection |-> collection, memory |-> memory]
    /\ UNCHANGED <<kbVars, memory, turnVars, held, hashes, issued, console>>

\* a clear_memory that forgets the last two messages only
ClearMemoryLastExchange ==
    /\ pc = "idle"
    /\ memory' = SubSeq(memory, 1, Len(memory) - 2)
    /\ held' = IF held.alias THEN [held EXCEPT !.alias = FALSE, !.own = memory] ELSE held
    /\ lastOp' = "clear_memory"
    /\ arg' = NoValue
    /\ ret' = NoValue
    /\ pre' = [collection |-> collection, memory |-> memory]
    /\ UNCHANGED <<kbVars, turnVars>>
    /\ UNCHANGED <<hashes, issued, console>>

\* clear_memory: memory.clear(), which gives chat_memory a new empty list;
\* a list handed out before keeps what it held
ClearMemory ==
    /\ pc = "idle"
    /\ memory' = <<>>
    /\ held' = IF held.alias THEN [held EXCEPT !.alias = FALSE, !.own = memory] ELSE held
    /\ lastOp' = "clear_memory"
    /\ arg' = NoValue
    /\ ret' = NoValue
    /\ pre' = [collection |-> collection, memory |-> memory]
    /\ UNCHANGED <<kbVars, turnVars>>
    /\ UNCHANGED <<hashes, issued, console>>

(***************************************************************************)
(* The create_support_ticket tool                                          *)
(***************************************************************************)
Issues == {"login fails", "refund late"}
Priorities == {"low", "medium", "high"}
NoPriority == "not given"

\* values hash() of a string may take; which one a string gets is fixed when
\* the process first hashes it and differs from one process to the next
HashValues == {0 - 7654321, 1234567, 21234567}

\* whether hash(s) may be h in this process
HashIs(s, h) == \A e \in hashes : e.s = s => e.h = h

\* f"TKT-{hash(issue) % 10000:04d}"
ticket_id(h) == [prefix |-> "TKT-", number |-> h % 10000]

\* create_support_ticket(issue, priority="medium") where hash(issue) is h
create_support_ticket(issue, priority, h) ==
    [ticket_id |-> ticket_id(h),
     issue |-> issue,
     priority |-> IF priority = NoPriority THEN "medium" ELSE priority,
     status |-> "Open"]

\* the executor runs the tool
CreateSupportTicket ==
    \E issue \in Issues, priority \in Priorities \cup {NoPriority}, h \in HashValues :
        /\ HashIs(issue, h)
        /\ hashes' = hashes \cup {[s |-> issue, h |-> h]}
        /\ ret' = create_support_ticket(issue, priority, h)
        /\ issued' = issued \cup {[issue |-> issue, ticket_id |-> ticket_id(h)]}
        /\ lastOp' = "create_support_ticket"
        /\ arg' = [issue |-> issue, priority |-> priority]
        /\ pre' = [collection |-> collection, memory |-> memory]
        /\ UNCHANGED <<kbVars, memory, turnVars, held, console>>

\* the program is started again: a new process, with its own string hashes and
\* an empty memory, over the same persist directory
Restart ==
    /\ hashes' = {}
    /\ memory' = <<>>
    /\ held' = NotHeld
    /\ pc' = "idle"
    /\ input' = None
    /\ iterations' = 0
    /\ observation' = NoValue
    /\ outcome' = None
    /\ parseFailed' = FALSE
    /\ lastOp' = "restart"
    /\ arg' = NoValue
    /\ ret' = NoValue
    /\ pre' = [collection |-> collection, memory |-> memory]
    /\ UNCHANGED <<kbVars, issued, console>>

(***************************************************************************)
(* The console.  A line the user types is a sequence of characters; the    *)
(* string operations of process_command are computed on it.                *)
(***************************************************************************)
Uppercase == <<"A", "B", "C", "D", "E", "F", "G", "H", "I", "J", "K", "L", "M",
               "N", "O", "P", "Q", "R", "S", "T", "U", "V", "W", "X", "Y", "Z">>
Lowercase == <<"a", "b", "c", "d", "e", "f", "g", "h", "i", "j", "k", "l", "m",
               "n", "o", "p", "q", "r", "s", "t", "u", "v", "w", "x", "y", "z">>
Whitespace == {" "}

lower_char(c) ==
    IF \E i \in 1..Len(Uppercase) : Uppercase[i] = c
    THEN Lowercase[CHOOSE i \in 1..Len(Uppercase) : Uppercase[i] = c]
    ELSE c

\* str.lower()
lower(s) == [i \in 1..Len(s) |-> lower_char(s[i])]

RECURSIVE lstrip(_)
lstrip(s) == IF s # <<>> /\ Head(s) \in Whitespace THEN lstrip(Tail(s)) ELSE s

RECURSIVE rstrip(_)
rstrip(s) ==
    IF s # <<>> /\ s[Len(s)] \in Whitespace THEN rstrip(SubSeq(s, 1, Len(s) - 1)) ELSE s

\* str.strip()
strip(s) == rstrip(lstrip(s))

\* str.startswith(prefix)
startswith(s, prefix) == Len(s) >= Len(prefix) /\ SubSeq(s, 1, Len(prefix)) = prefix

\* the string made of the characters of s
RECURSIVE Text(_)
Text(s) == IF s = <<>> THEN "" ELSE Head(s) \o Text(Tail(s))

\* the lines the user types
Lines ==
    { <<"H", "e", "l", "l", "o">>,
      <<" ", " ", "r", "e", "f", "u", "n", "d", " ">>,
      <<"u", "p", "l", "o", "a", "d", " ", "f", "a", "q", ".", "t", "x", "t">>,
      <<"U", "p", "l", "o", "a", "d", " ", "F", "A", "Q", ".", "T", "X", "T">>,
      <<"u", "p", "l", "o", "a", "d", " ", "G", "U", "I", "D", "E", ".", "M", "D">>,
      <<"s", "e", "a", "r", "c", "h", " ", "f", "a", "q">>,
      <<"s", "e", "a", "r", "c", "h", " ", "G", "u", "i", "d", "e">>,
      <<"s", "t", "a", "t", "u", "s">>,
      <<"C", "L", "E", "A", "R">>,
      <<"h", "i", "s", "t", "o", "r", "y">>,
      <<"k", "b", "_", "i", "n", "f", "o">>,
      <<"c", "l", "e", "a", "r", "_", "k", "b">>,
      <<"h", "e", "l", "p">>,
      <<"q", "u", "i", "t">>,
      <<"e", "x", "i", "t">>,
      <<" ", " ">> }

\* os.getenv("GOOGLE_API_KEY"): not set, set to the empty string, or a key
Unset == "not set"
APIKeys == {Unset, "", "AIza-key"}

\* a validate that does not look at the credential
validate_raises_never(key) == FALSE

\* Config.validate raises ValueError when the credential is missing or empty
validate_raises(key) == key = Unset \/ key = ""

\* initialize_system: True when validate and both constructors return
initialize_system(key, kbOk, agentOk) == ~validate_raises(key) /\ kbOk /\ agentOk

Call(op, payload) == [op |-> op, payload |-> payload]

\* os.path.exists(file_path) for a path the user typed
path_exists(file_path) == file_path \in Paths /\ Exists(file_path)

\* upload_document: the calls it makes on the knowledge base
upload_document(file_path) ==
    IF ~path_exists(file_path) THEN <<>> ELSE <<Call("add_documents", file_path)>>

upload_prefix == <<"u", "p", "l", "o", "a", "d", " ">>
search_prefix == <<"s", "e", "a", "r", "c", "h", " ">>

\* command[7:].strip()
command_argument(command) == strip(SubSeq(command, Len(upload_prefix) + 1, Len(command)))

\* process_command: whether it ends the loop, and the calls it makes on the
\* agent and the knowledge base, in order
process_command(line) ==
    LET command == lower(strip(line))
        c == Text(command)
        calls(s) == [exit |-> FALSE, calls |-> s]
    IN  IF c \in {"quit", "exit"} THEN [exit |-> TRUE, calls |-> <<>>]
        ELSE IF c = "help" THEN calls(<<>>)
        ELSE IF c = "status"
             THEN calls(<<Call("get_agent_status", ""), Call("get_collection_info", "")>>)
        ELSE IF c = "clear" THEN calls(<<Call("clear_memory", "")>>)
        ELSE IF c = "history" THEN calls(<<Call("get_conversation_history", "")>>)
        ELSE IF c = "kb_info" THEN calls(<<Call("get_collection_info", "")>>)
        ELSE IF c = "clear_kb" THEN calls(<<Call("clear_knowledge_base", "")>>)
        ELSE IF startswith(command, upload_prefix)
             THEN calls(upload_document(Text(command_argument(command))))
        ELSE IF startswith(command, search_prefix)
             THEN calls(<<Call("search", Text(command_argument(command)))>>)
        ELSE IF command # <<>> THEN calls(<<Call("process_message", c)>>)
        ELSE calls(<<>>)

\* ConsoleInterface.__init__, before the environment is read
ConsoleStart ==
    [stage |-> "start", api_key |-> Unset, knowledge_base |-> FALSE, agent |-> FALSE,
     line |-> <<>>, calls |-> <<>>]

\* config.py is imported: the credential is read from the environment
LoadEnvironment ==
    \E key \in APIKeys :
        /\ console.stage = "start"
        /\ console' = [console EXCEPT !.stage = "loaded", !.api_key = key]
        /\ UNCHANGED <<kbVars, memory, turnVars, lastOp, arg, ret, pre, held, hashes, issued>>

\* run() up to the command loop: initialize_system, which validates the
\* configuration and constructs the knowledge base and the agent
Run ==
    \E kbOk, agentOk \in BOOLEAN :
        /\ console.stage = "loaded"
        /\ console' =
             [console EXCEPT
                !.stage = IF initialize_system(console.api_key, kbOk, agentOk)
                          THEN "serving" ELSE "exited",
                !.knowledge_base = ~validate_raises(console.api_key) /\ kbOk,
                !.agent = initialize_system(console.api_key, kbOk, agentOk)]
        /\ UNCHANGED <<kbVars, memory, turnVars, lastOp, arg, ret, pre, held, hashes, issued>>

\* the model's bounds leave room for the calls of this command
HasRoom(calls) ==
    \A i \in 1..Len(calls) :
        /\ calls[i].op = "process_message" => Len(memory) < MaxMem
        /\ calls[i].op = "add_documents" =>
               Len(collection) + Len(all_chunks(<<calls[i].payload>>)) <= MaxChunks

\* one round of the command loop: input().strip(), then process_command on a
\* line that is not empty, up to its first call
ReadLine ==
    \E line \in Lines :
        LET user_input == strip(line)
            command == IF user_input # <<>> THEN process_command(user_input)
                       ELSE [exit |-> FALSE, calls |-> <<>>]
        IN  /\ console.stage = "serving"
            /\ console.calls = <<>>
            /\ HasRoom(command.calls)
            /\ console' = [console EXCEPT
                             !.stage = IF command.exit THEN "exited" ELSE "serving",
                             !.line = line,
                             !.calls = command.calls]
            /\ lastOp' = "process_command"
            /\ arg' = [command |-> Text(user_input)]
            /\ ret' = NoValue
            /\ pre' = [collection |-> collection, memory |-> memory]
            /\ UNCHANGED <<kbVars, memory, turnVars, held, hashes, issued>>

\* KeyboardInterrupt or EOFError at the prompt
Interrupt ==
    /\ console.stage = "serving"
    /\ console.calls = <<>>
    /\ console' = [console EXCEPT !.stage = "exited"]
    /\ UNCHANGED <<kbVars, memory, turnVars, lastOp, arg, ret, pre, held, hashes, issued>>

\* process_command makes its next call, with the argument it computed
ConsoleCall ==
    /\ console.stage = "serving"
    /\ console.calls # <<>>
    /\ lastOp = "process_command"
    /\ LET call == Head(console.calls) IN
        \/ call.op = "process_message" /\ BeginTurn /\ arg'.user_message = call.payload
        \/ call.op = "add_documents" /\ AddDocuments /\ arg'.file_paths = <<call.payload>>
        \/ call.op = "search" /\ Search /\ arg'.query = call.payload /\ arg'.k = 2
        \/ call.op = "get_collection_info" /\ GetCollectionInfo
        \/ call.op = "clear_knowledge_base" /\ ClearKnowledgeBase
        \/ call.op = "clear_memory" /\ ClearMemory
        \/ call.op = "get_conversation_history" /\ GetConversationHistory
        \/ call.op = "get_agent_status" /\ GetAgentStatus

\* the call has returned: process_command goes on to its next call, or returns
ConsoleReturn ==
    /\ console.stage = "serving"
    /\ console.calls # <<>>
    /\ pc = "idle"
    /\ lastOp = Head(console.calls).op
    /\ console' = [console EXCEPT !.calls = Tail(console.calls)]
    /\ lastOp' = "process_command"
    /\ UNCHANGED <<kbVars, memory, turnVars, arg, ret, pre, held, hashes, issued>>

\* what the persist directory may hold when the manager is constructed: the
\* PersistentClient reopens the collection earlier runs have filled
PersistedCollections ==
    { all_chunks(file_paths) : file_paths \in {<<>>, <<"faq.txt">>, <<"GUIDE.MD", "faq.txt">>} }

Init ==
    /\ collection \in PersistedCollections
    /\ collExists = TRUE
    /\ memory = <<>>
    /\ pc = "idle"
    /\ input = None
    /\ iterations = 0
    /\ observation = NoValue
    /\ outcome = None
    /\ parseFailed = FALSE
    /\ lastOp = None
    /\ arg = NoValue
    /\ ret = NoValue
    /\ pre = [collection |-> collection, memory |-> <<>>]
    /\ held = NotHeld
    /\ hashes = {}
    /\ issued = {}
    /\ console = ConsoleStart

\* the operations of the KnowledgeBaseManager
KBNext ==
    \/ AddDocuments
    \/ Search
    \/ GetCollectionInfo
    \/ ClearKnowledgeBase

\* the operations of the CustomerSupportAgent, a turn step by step
AgentNext ==
    \/ BeginTurn
    \/ ModelFinalAnswer
    \/ ModelCallsSearchTool
    \/ ModelCallsOtherTool
    \/ ModelOutputMalformed
    \/ InvokeRaises
    \/ IterationCap
    \/ ClearMemory
    \/ GetConversationHistory
    \/ GetAgentStatus

Next == KBNext \/ AgentNext

Spec == Init /\ [][Next]_vars

\* the knowledge base alone
KBSpec == Init /\ [][KBNext]_vars

\* the agent alone, over the knowledge base an earlier run has left
AgentSpec == Init /\ [][AgentNext]_vars

\* a turn in progress is not abandoned: the executor's loop keeps running
AgentLiveSpec == AgentSpec /\ WF_vars(AgentNext)

\* the ticket tool over several runs of the program
TicketNext == CreateSupportTicket \/ Restart

TicketSpec == Init /\ [][TicketNext]_vars

\* the agent with a caller that keeps and edits the history it was given, in
\* sessions where the model answers, or the call fails, in the first round
SessionNext ==
    \/ BeginTurn
    \/ ModelFinalAnswer
    \/ InvokeRaises
    \/ ClearMemory
    \/ CallerKeepsHistory
    \/ CallerEditsHistory

SessionSpec == Init /\ [][SessionNext]_vars

\* the console: start-up, the command loop, and the calls the commands make
\* on the agent and the knowledge base, a chat turn step by step
ConsoleNext ==
    \/ LoadEnvironment
    \/ Run
    \/ ReadLine
    \/ Interrupt
    \/ ConsoleCall
    \/ ConsoleReturn
    \/ ModelFinalAnswer
    \/ ModelCallsSearchTool
    \/ ModelCallsOtherTool
    \/ ModelOutputMalformed
    \/ InvokeRaises
    \/ IterationCap

ConsoleSpec == Init /\ [][ConsoleNext]_vars

(***************************************************************************)
(* Properties                                                              *)
(***************************************************************************)
Last(seq) == seq[Len(seq)]

TurnDone == pc = "idle" /\ lastOp = "process_message"

\* C1: when the model invocation succeeds with final answer a,
\* process_message(m) returns a and history() is history() before the call
\* followed by exactly two entries, the user message m then the agent message a.
C1_AnswerAppendsTwoEntries ==
    (TurnDone /\ outcome = "final") =>
        /\ ret.text \in Answers
        /\ memory = pre.memory \o <<HumanMessage(arg.user_message), AIMessage(ret.text)>>

ExpectedChunks(p) ==
    CASE p = "faq.txt" ->
            << [content |-> [text |-> "faq", start |-> 0, end |-> 500], source |-> "faq.txt"],
               [content |-> [text |-> "faq", start |-> 400, end |-> 900], source |-> "faq.txt"] >>
      [] p = "GUIDE.MD" ->
            << [content |-> [text |-> "guide", start |-> 0, end |-> 300], source |-> "GUIDE.MD"] >>
      [] OTHER -> <<>>

RECURSIVE ExpectedBatchChunks(_)
ExpectedBatchChunks(file_paths) ==
    IF file_paths = <<>> THEN <<>>
    ELSE ExpectedChunks(Head(file_paths)) \o ExpectedBatchChunks(Tail(file_paths))

ValidFiles == {"faq.txt", "GUIDE.MD"}
\* missing, unsupported, unreadable and empty
UnproductiveFiles == {"gone.txt", "notes.docx", "broken.pdf", "empty.txt"}
\* unsupported extension, failing parser
BadFiles == {"notes.docx", "broken.pdf"}

\* C4: after clear_knowledge_base() get_collection_info() reports
\* total_documents = 0 and search(q, k) returns the empty list for every query
\* and every k >= 1.
C4_ClearedStoreIsEmpty ==
    lastOp = "clear_knowledge_base" =>
        /\ get_collection_info(TRUE).total_documents = 0
        /\ \A query \in Queries, k \in 1..MaxK : search(query, k, TRUE) = <<>>

\* C5: clear_knowledge_base() returns true and leaves the store empty, on a
\* store holding chunks as on an empty one.
C5_ClearReportsSuccess ==
    lastOp = "clear_knowledge_base" =>
        /\ ret.ok = TRUE
        /\ collection = <<>>

\* C6: add_documents on a list that produces no chunk (the empty list, or only
\* missing, unsupported, unreadable or empty files) returns false and leaves
\* the collection as it was.
C6_NoChunkNoWrite ==
    (lastOp = "add_documents"
       /\ \A i \in 1..Len(arg.file_paths) : arg.file_paths[i] \in UnproductiveFiles) =>
        /\ ret.ok = FALSE
        /\ collection = pre.collection

\* add_documents([]) has returned false on a store that holds chunks
C6_Witness ==
    /\ lastOp = "add_documents"
    /\ arg.file_paths = <<>>
    /\ ret.ok = FALSE
    /\ collection # <<>>
    /\ collection = pre.collection

\* C7: add_documents on one valid and one missing path, in either order, with
\* the store accepting the write, stores the chunks of the valid file and
\* returns true.
C7_MissingPathSkipped ==
    \A v \in ValidFiles :
        (lastOp = "add_documents"
           /\ arg.file_paths \in { <<v, "gone.txt">>, <<"gone.txt", v>> }
           /\ arg.storeOk) =>
            /\ ret.ok = TRUE
            /\ collection = pre.collection \o ExpectedChunks(v)

\* the missing path came first and the valid file behind it was stored
C7_Witness ==
    /\ lastOp = "add_documents"
    /\ arg.file_paths = <<"gone.txt", "faq.txt">>
    /\ ret.ok = TRUE
    /\ Len(collection) = Len(pre.collection) + 2

\* C8: add_documents on a batch holding a file of unsupported extension or one
\* whose parser fails, at any position, with the store accepting the write,
\* stores the chunks of every valid file of the batch, in order, and returns
\* true exactly when there is such a chunk.
C8_BadFileSkipped ==
    (lastOp = "add_documents"
       /\ arg.storeOk
       /\ \E i \in 1..Len(arg.file_paths) : arg.file_paths[i] \in BadFiles) =>
        /\ collection = pre.collection \o ExpectedBatchChunks(arg.file_paths)
        /\ ret.ok = (ExpectedBatchChunks(arg.file_paths) # <<>>)

\* a bad file came first and the valid file behind it was stored
C8_Witness ==
    /\ lastOp = "add_documents"
    /\ Len(arg.file_paths) >= 2
    /\ arg.file_paths[1] \in BadFiles
    /\ arg.file_paths[2] = "GUIDE.MD"
    /\ ret.ok = TRUE
    /\ collection = pre.collection \o ExpectedChunks("GUIDE.MD")

\* C9: search(query, k) returns at most k chunk texts, each the text of a
\* stored chunk, and the empty list when the similarity search fails.
C9_SearchBounded ==
    lastOp = "search" =>
        /\ Len(ret.chunks) <= arg.k
        /\ \A i \in 1..Len(ret.chunks) :
              \E j \in 1..Len(collection) : collection[j].content = ret.chunks[i]
        /\ ~arg.storeOk => ret.chunks = <<>>

\* a search on a store holding more than k chunks has returned k of them
C9_Witness ==
    /\ lastOp = "search"
    /\ arg.storeOk
    /\ Len(collection) > arg.k
    /\ Len(ret.chunks) = arg.k

\* C10: get_collection_info() returns the persist directory with
\* total_documents = 0 when the collection does not exist or was reset, and
\* with the current chunk count otherwise.
C10_InfoZeroAfterReset ==
    [][lastOp' = "get_collection_info" =>
          /\ ret'.persist_directory = persist_directory
          /\ ret'.total_documents =
                IF ~collExists \/ lastOp = "clear_knowledge_base" THEN 0
                ELSE IF arg'.storeOk THEN Len(collection)
                ELSE 0]_vars

\* C11: clear_memory() leaves history() empty after any sequence of turns,
\* and again when it is called on the memory it has just emptied.
C11_ClearEmptiesHistory ==
    lastOp = "clear_memory" =>
        /\ memory = <<>>
        /\ get_agent_status.memory_length = 0

\* clear_memory() called on a memory that turns had filled and an earlier
\* clear_memory() had emptied
C11_Witness ==
    /\ lastOp = "clear_memory"
    /\ outcome # None
    /\ pre.memory = <<>>
    /\ memory = <<>>

\* C12: the sequence obtained from get_conversation_history() keeps the
\* contents it had when later turns are processed or clear_memory() is
\* called, and the caller's changes to it do not change Session Memory.
C12_HistoryIsSnapshot ==
    [][(held.taken /\ lastOp' # "get_conversation_history") =>
          /\ lastOp' # "caller_edit" => HeldContents' = HeldContents
          /\ lastOp' = "caller_edit" => memory' = memory]_vars

\* C13: between turns every user message in memory is immediately followed
\* by the answer of its turn.
C13_UserFollowedByAnswer ==
    pc = "idle" =>
        \A i \in 1..Len(memory) :
            memory[i].type = "human" =>
                /\ i < Len(memory)
                /\ memory[i + 1].type = "ai"

NoInformation == "No relevant information found in the knowledge base."

SearchObserved == pc = "running" /\ "results" \in DOMAIN observation

\* C14: the search_knowledge_base tool returns the sentinel when the search
\* returns no chunk and otherwise at most 2 texts of stored chunks, and a turn
\* in which the sentinel was returned completes, process_message returning
\* the string it stored last.
C14_SentinelThenCompletion ==
    /\ [](SearchObserved =>
            /\ observation.results = <<>> => observation.text = NoInformation
            /\ observation.results # <<>> =>
                  /\ observation.text = "Found relevant information:"
                  /\ Len(observation.results) <= 2
                  /\ \A i \in 1..Len(observation.results) :
                        \E j \in 1..Len(collection) :
                            collection[j].content = observation.results[i])
    /\ (SearchObserved /\ observation.text = NoInformation)
          ~> (TurnDone /\ Last(memory) = AIMessage(ret.text))

\* the tool has returned the sentinel on a knowledge base holding nothing
C14_Witness ==
    /\ SearchObserved
    /\ collection = <<>>
    /\ observation.text = NoInformation

IsPrefix(a, b) == Len(a) <= Len(b) /\ SubSeq(b, 1, Len(a)) = a

\* C18: every step other than clear_memory leaves the memory it found as a
\* prefix of the memory it leaves, and every entry is a user or agent message
\* whose content is a user message, an answer, an apology or the stopped
\* response, never a tool invocation or its result.
C18_MemoryAppendOnly ==
    [][/\ lastOp' # "clear_memory" => IsPrefix(memory, memory')
       /\ \A i \in 1..Len(memory') :
             /\ memory'[i].type \in {"human", "ai"}
             /\ memory'[i].content \in
                   UserMessages \cup Answers \cup Apologies \cup {StoppedResponse}]_vars

\* a turn has added its messages behind those of an earlier turn
C18_Witness ==
    /\ TurnDone
    /\ pre.memory # <<>>
    /\ IsPrefix(pre.memory, memory)
    /\ Len(memory) > Len(pre.memory)

\* C15: any two invocations of create_support_ticket with the same issue
\* text, in the same or in different runs and whatever the priority, return
\* the same identifier; the status is "Open" and the priority "medium" when
\* none is given.
C15_TicketIdDeterministic ==
    /\ \A t1 \in issued, t2 \in issued :
          t1.issue = t2.issue => t1.ticket_id = t2.ticket_id
    /\ lastOp = "create_support_ticket" =>
          /\ ret.status = "Open"
          /\ arg.priority = NoPriority => ret.priority = "medium"

\* C16: over add_documents, search and get_collection_info the chunk count
\* never decreases and the stored chunks stay; a successful add_documents adds
\* exactly the chunks produced for its batch, a failed one and the two reads
\* add none; only clear_knowledge_base may lower the count.
C16_CollectionAppendOnly ==
    [][/\ lastOp' # "clear_knowledge_base" =>
             /\ Len(collection') >= Len(collection)
             /\ IsPrefix(collection, collection')
       /\ lastOp' = "add_documents" =>
             Len(collection') =
                 Len(collection)
                 + (IF ret'.ok THEN Len(ExpectedBatchChunks(arg'.file_paths)) ELSE 0)
       /\ lastOp' \in {"search", "get_collection_info"} => collection' = collection]_vars

\* a successful add_documents on a store that already held chunks
C16_Witness ==
    /\ lastOp = "add_documents"
    /\ ret.ok = TRUE
    /\ pre.collection # <<>>
    /\ Len(collection) = Len(pre.collection) + Len(ExpectedBatchChunks(arg.file_paths))

\* C20: after clear_knowledge_base() a later add_documents with one valid,
\* non-empty file returns true, get_collection_info() then reports that
\* file's chunk count, and search returns chunks of it.
C20_UsableAfterReset ==
    [][\A v \in ValidFiles :
          (lastOp = "clear_knowledge_base"
             /\ lastOp' = "add_documents"
             /\ arg'.file_paths = <<v>>
             /\ arg'.storeOk) =>
              /\ ret'.ok = TRUE
              /\ collExists'
              /\ Len(collection') = Len(ExpectedChunks(v))
              /\ \E j \in 1..Len(collection') : collection'[j] \in
                    { ExpectedChunks(v)[i] : i \in 1..Len(ExpectedChunks(v)) }]_vars

\* the credentials that count as missing
MissingKeys == {Unset, ""}

\* C17: with the language-model credential missing (not set, or empty) the
\* console never reaches the command loop: initialize_system returns false,
\* run() returns, no agent is created, and no command or chat turn is served.
C17_MissingCredentialIsFatal ==
    (console.stage # "start" /\ console.api_key \in MissingKeys) =>
        /\ console.stage \in {"loaded", "exited"}
        /\ ~console.agent
        /\ ~console.knowledge_base
        /\ console.calls = <<>>
        /\ lastOp = None
        /\ memory = <<>>

\* run() has returned on a missing credential
C17_Witness ==
    /\ console.stage = "exited"
    /\ console.api_key \in MissingKeys
    /\ ~console.agent
    /\ lastOp = None

\* the argument the user typed after the command word
user_argument(line) ==
    strip(SubSeq(strip(line), Len(upload_prefix) + 1, Len(strip(line))))

\* C19: the message given to process_message is the user's line with only
\* the surrounding whitespace removed, and the path given to add_documents and
\* the query given to search are the user's argument, letter case included.
C19_TextPassedUnchanged ==
    (console.calls # <<>> /\ lastOp = Head(console.calls).op) =>
        /\ lastOp = "process_message" => arg.user_message = Text(strip(console.line))
        /\ lastOp = "add_documents" => arg.file_paths = <<Text(user_argument(console.line))>>
        /\ lastOp = "search" => arg.query = Text(user_argument(console.line))
====
